---- MODULE Spec2Model ----
(***************************************************************************)
(* Model of src/lang.rs of ludusavi: the Fluent message resolver           *)
(* (translate_args), the lazily built, mutex-guarded BUNDLE, the three     *)
(* regex reflow passes and the Translator facade functions built on them.  *)
(*                                                                         *)
(* Strings are sequences of atoms.  Rendered text is a sequence of single  *)
(* characters.  A request id is a sequence whose atoms are "." and         *)
(* dot-free name fragments, so that splitting on the first "." is          *)
(* computed on the id itself.                                              *)
(***************************************************************************)
EXTENDS Integers, Sequences, FiniteSets, TLC

(* ------------------------------ bounds --------------------------------- *)
NumThreads == 2
MaxIdLen == 3
MaxTextLen == 5
MaxGames == 2

(* --------------------------- characters -------------------------------- *)
SP == " "
LF == "\n"
CR == "\r"
DOT == "."

\* the characters excluded by the class [^\r\n ] of the three regexes
Blank == {CR, LF, SP}
\* the characters of the class [\r\n]
LineBreak == {CR, LF}

NonBlank(c) == c \notin Blank

\* Texts the reflow is applied to: "a" stands for any character matched by
\* [^\r\n ].
Chars == {"a", SP, LF, CR}
Texts == UNION {[1..n -> Chars] : n \in 0..MaxTextLen}

(* -------------------- lines 15-20: argument names ----------------------- *)
PATH == "path"
PATH_ACTION == "path-action"
PROCESSED_GAMES == "processed-games"
PROCESSED_SIZE == "processed-size"
TOTAL_GAMES == "total-games"
TOTAL_SIZE == "total-size"

ArgNames == {PATH, PATH_ACTION, PROCESSED_GAMES, PROCESSED_SIZE, TOTAL_GAMES, TOTAL_SIZE}

(* ------------------ lines 54-56, 93-98: the reflow ---------------------- *)
\* length of the run of characters of class cls that starts at position i
RECURSIVE RunLen(_, _, _)
RunLen(text, i, cls) ==
    IF i <= Len(text) /\ text[i] \in cls THEN 1 + RunLen(text, i + 1, cls) ELSE 0

\* RE_EXTRA_SPACES = ([^\r\n ]) {2,} : length of the match starting at i, 0 if none
SpacesMatch(text, i) ==
    IF NonBlank(text[i]) /\ RunLen(text, i + 1, {SP}) >= 2
    THEN 1 + RunLen(text, i + 1, {SP})
    ELSE 0

\* RE_EXTRA_LINES = ([^\r\n ])[\r\n]([^\r\n ]) : length of the match starting at i
LinesMatch(text, i) ==
    IF /\ i + 2 <= Len(text)
       /\ NonBlank(text[i])
       /\ text[i + 1] \in LineBreak
       /\ NonBlank(text[i + 2])
    THEN 3
    ELSE 0

\* RE_EXTRA_PARAGRAPHS = ([^\r\n ])[\r\n]{2,}([^\r\n ]) : the greedy run is the
\* whole run of line breaks (a shorter one is followed by a line break, which the
\* second group rejects)
ParagraphsMatch(text, i) ==
    LET r == RunLen(text, i + 1, LineBreak)
    IN  IF /\ NonBlank(text[i])
           /\ r >= 2
           /\ i + 1 + r <= Len(text)
           /\ NonBlank(text[i + 1 + r])
        THEN r + 2
        ELSE 0

\* Regex::replace_all: leftmost non-overlapping matches, the search resuming at
\* the end of the previous match.
RECURSIVE ReplaceSpaces(_, _)
ReplaceSpaces(text, i) ==
    IF i > Len(text) THEN <<>>
    ELSE LET m == SpacesMatch(text, i)
         IN  IF m > 0
             THEN <<text[i], SP>> \o ReplaceSpaces(text, i + m)
             ELSE <<text[i]>> \o ReplaceSpaces(text, i + 1)

RECURSIVE ReplaceLines(_, _)
ReplaceLines(text, i) ==
    IF i > Len(text) THEN <<>>
    ELSE LET m == LinesMatch(text, i)
         IN  IF m > 0
             THEN <<text[i], SP, text[i + 2]>> \o ReplaceLines(text, i + m)
             ELSE <<text[i]>> \o ReplaceLines(text, i + 1)

RECURSIVE ReplaceParagraphs(_, _)
ReplaceParagraphs(text, i) ==
    IF i > Len(text) THEN <<>>
    ELSE LET m == ParagraphsMatch(text, i)
         IN  IF m > 0
             THEN <<text[i], LF, LF, text[i + m - 1]>> \o ReplaceParagraphs(text, i + m)
             ELSE <<text[i]>> \o ReplaceParagraphs(text, i + 1)

ExtraSpaces(text) == ReplaceSpaces(text, 1)
ExtraLines(text) == ReplaceLines(text, 1)
ExtraParagraphs(text) == ReplaceParagraphs(text, 1)

\* lines 93-98: each replace_all runs over the finished output of the one before
Reflow(value) ==
    CHOOSE paragraphs \in
        {ExtraParagraphs(lines) : lines \in
            {ExtraLines(spaces) : spaces \in {ExtraSpaces(value)}}} : TRUE

(* ------------------------ FluentArgs / values --------------------------- *)
Absent == [kind |-> "absent", num |-> 0, str |-> <<>>]
Str(s) == [kind |-> "string", num |-> 0, str |-> s]
Num(n) == [kind |-> "number", num |-> n, str |-> <<>>]

\* FluentArgs::new()
NoArgs == [n \in ArgNames |-> Absent]
\* FluentArgs::set
ArgSet(args, key, v) == [args EXCEPT ![key] = v]

Digit(n) == <<"0", "1", "2", "3", "4", "5", "6", "7", "8", "9">>[n + 1]

\* decimal rendering of a number
RECURSIVE NumText(_)
NumText(n) == IF n < 10 THEN <<Digit(n)>> ELSE NumText(n \div 10) \o <<Digit(n % 10)>>

(* ----------------------- lines 397-401: adjusted_size ------------------- *)
KiB == 1024

\* Byte::get_appropriate_unit(true).to_string(): plain bytes below 1 KiB, two
\* decimals and the binary unit from there on (units above KiB are outside the
\* byte counts the model draws)
adjusted_size(bytes) ==
    IF bytes < KiB
    THEN NumText(bytes) \o <<SP, "B">>
    ELSE LET frac == ((bytes % KiB) * 100 + KiB \div 2) \div KiB
         IN  NumText(bytes \div KiB) \o <<DOT, Digit(frac \div 10), Digit(frac % 10)>>
                 \o <<SP, "K", "i", "B">>

(* ------------------- StrictPath::render (crate::prelude) ---------------- *)
\* the path's canonical text: backslashes become forward slashes
RECURSIVE render(_)
render(path) ==
    IF path = <<>> THEN <<>>
    ELSE <<IF Head(path) = "\\" THEN "/" ELSE Head(path)>> \o render(Tail(path))

(* ---------------------- lang/en-US.ftl: the catalog --------------------- *)
\* pattern elements: a character of text, or a placeable {$var}
T(c) == [text |-> c, var |-> ""]
V(name) == [text |-> "", var |-> name]

NoPattern == <<>>
Attribute(id, pattern) == [id |-> id, value |-> pattern]
Message(has_value, pattern, attrs) == [has_value |-> has_value, value |-> pattern, attributes |-> attrs]
ValueOnly(pattern) == Message(TRUE, pattern, {})

CatalogNames ==
    { <<"ludusavi">>, <<"some-entries-failed">>, <<"config-is-invalid">>,
      <<"manifest-is-invalid">>, <<"manifest-cannot-be-updated">>,
      <<"cli-backup-target-already-exists">>, <<"cli-unrecognized-games">>,
      <<"cli-unable-to-request-confirmation">>, <<"cannot-prepare-backup-target">>,
      <<"restoration-source-is-invalid">>, <<"registry-issue">>,
      <<"unable-to-browse-file-system">>, <<"unable-to-open-directory">>,
      <<"unable-to-open-url">>, <<"processed-games">>, <<"processed-games-subset">>,
      <<"processed-size-subset">>, <<"cli-summary">>, <<"field-redirect-source">> }

CatalogMessage(name) ==
    CASE name = <<"cli-unable-to-request-confirmation">> ->
            Message(TRUE, <<T("a"), T(LF), T("a")>>,
                    {Attribute(<<"winpty-workaround">>, <<T("a"), T(SP), T(SP), T("a")>>)})
      [] name = <<"cli-summary">> ->
            Message(FALSE, NoPattern,
                    {Attribute(<<"succeeded">>, <<V(PROCESSED_GAMES), T(LF), V(PATH)>>),
                     Attribute(<<"failed">>, <<V(PROCESSED_GAMES), T(SP), V(TOTAL_GAMES)>>)})
      [] name = <<"field-redirect-source">> ->
            Message(FALSE, NoPattern, {Attribute(<<"placeholder">>, <<T("a")>>)})
      [] name \in {<<"cli-backup-target-already-exists">>, <<"cannot-prepare-backup-target">>,
                   <<"restoration-source-is-invalid">>} ->
            ValueOnly(<<T("a"), T(LF), T(LF), T(LF), V(PATH)>>)
      [] name = <<"processed-games">> ->
            ValueOnly(<<V(TOTAL_GAMES), T(SP), T("a")>>)
      [] name = <<"processed-games-subset">> ->
            ValueOnly(<<V(PROCESSED_GAMES), T(SP), T("a"), T(SP), V(TOTAL_GAMES)>>)
      [] name = <<"processed-size-subset">> ->
            ValueOnly(<<V(PROCESSED_SIZE), T(SP), T("a"), T(SP), V(TOTAL_SIZE)>>)
      [] OTHER -> ValueOnly(<<T("a"), T(LF), T("a")>>)

\* the FluentBundle built by the initializer (lines 40-51)
Catalog == [name \in CatalogNames |-> CatalogMessage(name)]
\* BUNDLE before the initializer has run
NoBundle == [name \in {} |-> CatalogMessage(name)]

(* --------------------- FluentBundle / FluentMessage --------------------- *)
has_message(bundle, name) == name \in DOMAIN bundle
\* FluentMessage::value
has_value(message) == message.has_value
\* FluentMessage::get_attribute
has_attribute(message, attr) == \E a \in message.attributes : a.id = attr
get_attribute(message, attr) == CHOOSE a \in message.attributes : a.id = attr

\* text a value is written as by the formatter
ValueText(v) == IF v.kind = "number" THEN NumText(v.num) ELSE v.str

\* FluentBundle::format_pattern: text elements are copied, placeables are replaced
\* by the argument's text, a missing argument is written as {$name} (the error
\* list is dropped by translate_args, line 90)
RECURSIVE format_pattern(_, _)
format_pattern(pattern, args) ==
    IF pattern = <<>> THEN <<>>
    ELSE LET el == Head(pattern)
             out == IF el.var = "" THEN <<el.text>>
                    ELSE IF args[el.var].kind = "absent" THEN <<"{", "$", el.var, "}">>
                    ELSE ValueText(args[el.var])
         IN  out \o format_pattern(Tail(pattern), args)

\* the formatter memoizes its number formatters in the bundle's IntlLangMemoizer
\* when a number is written
Memoized(pattern, args) ==
    IF \E i \in 1..Len(pattern) : pattern[i].var # "" /\ args[pattern[i].var].kind = "number"
    THEN {"number"}
    ELSE {}

(* --------------------- lines 68-73: id.splitn(2, '.') ------------------- *)
HasDot(id) == \E i \in 1..Len(id) : id[i] = DOT
FirstDot(id) == CHOOSE i \in 1..Len(id) : id[i] = DOT /\ \A j \in 1..(i - 1) : id[j] # DOT

\* (name, attr) of lines 69-73
MessageName(id) == IF HasDot(id) THEN SubSeq(id, 1, FirstDot(id) - 1) ELSE id
AttrName(id) == IF HasDot(id) THEN SubSeq(id, FirstDot(id) + 1, Len(id)) ELSE <<>>

(* ------------------- lines 65, 77, 83, 87: diagnostics ------------------ *)
CannotLock == <<"fluent-cannot-lock">>
NoMessage(name) == <<"fluent-no-message=">> \o name
NoMessageValue(id) == <<"fluent-no-message-value=">> \o id
NoAttr(id) == <<"fluent-no-attr=">> \o id

\* needle occurs in hay as a contiguous substring
Contains(hay, needle) ==
    \E i \in 0..(Len(hay) - Len(needle)) :
        \A j \in 1..Len(needle) : hay[i + j] = needle[j]

(* ----------------- crate::prelude: Error, OperationStatus ---------------- *)
NoPath == <<>>
Err(kind, path, why, games) == [kind |-> kind, path |-> path, why |-> why, games |-> games]
NoError == Err("", NoPath, <<>>, <<>>)

Status(tg, pg, tb, pb) ==
    [total_games |-> tg, processed_games |-> pg, total_bytes |-> tb, processed_bytes |-> pb]
NoStatus == Status(0, 0, 0, 0)

\* OperationStatus::processed_all_games / processed_all_bytes
processed_all_games(status) == status.processed_games = status.total_games
processed_all_bytes(status) == status.processed_bytes = status.total_bytes

(* ------------------------- facade functions ----------------------------- *)
\* A facade function is the list of translate_args calls it makes, in order, and
\* the format! that builds its result from their results and from literal text.
Req(id, args) == [id |-> id, args |-> args]
Res(i) == [res |-> i, lit |-> <<>>]
Lit(text) == [res |-> 0, lit |-> text]
Plan(calls, fmt) == [calls |-> calls, fmt |-> fmt]

\* lines 58-60
translate(id) == Req(id, NoArgs)
\* a function that returns the result of its one call unchanged
Single(req) == Plan(<<req>>, <<Res(1)>>)

\* format! over the results of the calls made
RECURSIVE Output(_, _)
Output(fmt, results) ==
    IF fmt = <<>> THEN <<>>
    ELSE (IF Head(fmt).res > 0 THEN results[Head(fmt).res] ELSE Head(fmt).lit)
             \o Output(Tail(fmt), results)

\* lines 357-359
config_is_invalid(why) ==
    Plan(<<translate(<<"config-is-invalid">>)>>, <<Res(1), Lit(<<LF>>), Lit(why)>>)
\* lines 361-363
manifest_is_invalid(why) ==
    Plan(<<translate(<<"manifest-is-invalid">>)>>, <<Res(1), Lit(<<LF>>), Lit(why)>>)
\* lines 365-367
manifest_cannot_be_updated == Single(translate(<<"manifest-cannot-be-updated">>))
\* lines 129-133
cli_backup_target_exists(path) ==
    Single(Req(<<"cli-backup-target-already-exists">>, ArgSet(NoArgs, PATH, Str(render(path)))))

\* lines 137-138: "  - {game}" for each game, joined by "\n"
RECURSIVE GameLines(_)
GameLines(games) ==
    IF games = <<>> THEN <<>>
    ELSE <<SP, SP, "-", SP>> \o Head(games)
             \o (IF Tail(games) = <<>> THEN <<>> ELSE <<LF>>) \o GameLines(Tail(games))
\* lines 135-139
cli_unrecognized_games(games) ==
    Plan(<<translate(<<"cli-unrecognized-games">>)>>,
         <<Res(1), Lit(<<LF>>), Lit(GameLines(games))>>)

\* lines 147-155: on Windows the note is resolved first, then the message
cli_unable_to_request_confirmation(win) ==
    IF win
    THEN Plan(<<translate(<<"cli-unable-to-request-confirmation", DOT, "winpty-workaround">>),
                translate(<<"cli-unable-to-request-confirmation">>)>>,
              <<Res(2), Lit(<<SP>>), Res(1)>>)
    ELSE Plan(<<translate(<<"cli-unable-to-request-confirmation">>)>>,
              <<Res(1), Lit(<<SP>>), Lit(<<>>)>>)

\* lines 157-159
some_entries_failed == Single(translate(<<"some-entries-failed">>))

\* cannot_prepare_backup_target without args.set(PATH, ..)
CannotPrepareNoPath(target) == Single(translate(<<"cannot-prepare-backup-target">>))

\* lines 369-373
cannot_prepare_backup_target(target) ==
    Single(Req(<<"cannot-prepare-backup-target">>, ArgSet(NoArgs, PATH, Str(render(target)))))
\* lines 375-379
restoration_source_is_invalid(source) ==
    Single(Req(<<"restoration-source-is-invalid">>, ArgSet(NoArgs, PATH, Str(render(source)))))
\* lines 381-383
registry_issue == Single(translate(<<"registry-issue">>))
\* lines 385-387
unable_to_browse_file_system == Single(translate(<<"unable-to-browse-file-system">>))
\* lines 389-391
unable_to_open_dir(path) ==
    Plan(<<translate(<<"unable-to-open-directory">>)>>,
         <<Res(1), Lit(<<LF, LF>>), Lit(render(path))>>)
\* lines 393-395
unable_to_open_url(url) ==
    Plan(<<translate(<<"unable-to-open-url">>)>>, <<Res(1), Lit(<<LF, LF>>), Lit(url)>>)

\* lines 111-127: one arm per variant, no catch-all
handle_error(error, win) ==
    CASE error.kind = "ConfigInvalid" -> config_is_invalid(error.why)
      [] error.kind = "ManifestInvalid" -> manifest_is_invalid(error.why)
      [] error.kind = "ManifestCannotBeUpdated" -> manifest_cannot_be_updated
      [] error.kind = "CliBackupTargetExists" -> cli_backup_target_exists(error.path)
      [] error.kind = "CliUnrecognizedGames" -> cli_unrecognized_games(error.games)
      [] error.kind = "CliUnableToRequestConfirmation" -> cli_unable_to_request_confirmation(win)
      [] error.kind = "SomeEntriesFailed" -> some_entries_failed
      [] error.kind = "CannotPrepareBackupTarget" -> cannot_prepare_backup_target(error.path)
      [] error.kind = "RestorationSourceInvalid" -> restoration_source_is_invalid(error.path)
      [] error.kind = "RegistryIssue" -> registry_issue
      [] error.kind = "UnableToBrowseFileSystem" -> unable_to_browse_file_system
      [] error.kind = "UnableToOpenDir" -> unable_to_open_dir(error.path)
      [] error.kind = "UnableToOpenUrl" -> unable_to_open_url(error.why)

\* processed_games with the two branches swapped
ProcessedGamesSwapped(status) ==
    Single(Req(IF processed_all_games(status)
               THEN <<"processed-games-subset">> ELSE <<"processed-games">>,
               ArgSet(ArgSet(NoArgs, TOTAL_GAMES, Num(status.total_games)),
                      PROCESSED_GAMES, Num(status.processed_games))))

\* lines 403-413
processed_games(status) ==
    LET args == ArgSet(ArgSet(NoArgs, TOTAL_GAMES, Num(status.total_games)),
                       PROCESSED_GAMES, Num(status.processed_games))
    IN  IF processed_all_games(status)
        THEN Single(Req(<<"processed-games">>, args))
        ELSE Single(Req(<<"processed-games-subset">>, args))

\* lines 415-424: nothing is resolved when every byte was processed
processed_bytes(status) ==
    IF processed_all_bytes(status)
    THEN Plan(<<>>, <<Lit(adjusted_size(status.total_bytes))>>)
    ELSE Single(Req(<<"processed-size-subset">>,
                    ArgSet(ArgSet(NoArgs, TOTAL_SIZE, Str(adjusted_size(status.total_bytes))),
                           PROCESSED_SIZE, Str(adjusted_size(status.processed_bytes)))))

(* ----------------------------- callers ---------------------------------- *)
\* what a caller invokes: a facade function with its inputs, or translate_args
\* with an id and arguments
Op(fn, error, status, id, args) ==
    [fn |-> fn, error |-> error, status |-> status, id |-> id, args |-> args]
NoOp == Op("", NoError, NoStatus, <<>>, NoArgs)
TranslateArgs(id, args) == Op("translate_args", NoError, NoStatus, id, args)
HandleError(error) == Op("handle_error", error, NoStatus, <<>>, NoArgs)
ProcessedGames(status) == Op("processed_games", NoError, status, <<>>, NoArgs)
ProcessedBytes(status) == Op("processed_bytes", NoError, status, <<>>, NoArgs)

PlanOf(o, win) ==
    CASE o.fn = "translate_args" -> Single(Req(o.id, o.args))
      [] o.fn = "handle_error" -> handle_error(o.error, win)
      [] o.fn = "processed_games" -> processed_games(o.status)
      [] o.fn = "processed_bytes" -> processed_bytes(o.status)

\* inputs the callers draw from
Paths == {<<"/", "p">>, <<"\\", "p">>}
Whys == {<<"w">>}
GameLists == {<<>>, <<<<"g">>, <<"h">>>>}
ByteCounts == {0, 1023, 1024, 1536}

PathKinds == {"CliBackupTargetExists", "CannotPrepareBackupTarget",
              "RestorationSourceInvalid", "UnableToOpenDir"}
WhyKinds == {"ConfigInvalid", "ManifestInvalid", "UnableToOpenUrl"}
PlainKinds == {"ManifestCannotBeUpdated", "CliUnableToRequestConfirmation",
               "SomeEntriesFailed", "RegistryIssue", "UnableToBrowseFileSystem"}
ErrorKinds == PathKinds \cup WhyKinds \cup PlainKinds \cup {"CliUnrecognizedGames"}

Errors ==
    {Err(k, p, <<>>, <<>>) : k \in PathKinds, p \in Paths}
        \cup {Err(k, NoPath, w, <<>>) : k \in WhyKinds, w \in Whys}
        \cup {Err(k, NoPath, <<>>, <<>>) : k \in PlainKinds}
        \cup {Err("CliUnrecognizedGames", NoPath, <<>>, g) : g \in GameLists}

Statuses ==
    {st \in {Status(tg, pg, tb, pb) : tg \in 0..MaxGames, pg \in 0..MaxGames,
                                      tb \in ByteCounts, pb \in ByteCounts} :
        st.processed_games <= st.total_games /\ st.processed_bytes <= st.total_bytes}

IdAtoms == {"cli-summary", "succeeded", "processed-games", "missing", DOT}
Ids == UNION {[1..n -> IdAtoms] : n \in 0..MaxIdLen}
SomeArgs == {NoArgs, ArgSet(NoArgs, PROCESSED_GAMES, Num(1))}

\* the calls of a single caller
SeqOps ==
    {TranslateArgs(id, args) : id \in Ids, args \in SomeArgs}
        \cup {HandleError(e) : e \in Errors}
        \cup {ProcessedGames(s) : s \in Statuses}
        \cup {ProcessedBytes(s) : s \in Statuses}

\* the calls of the parallel callers: a request for each early return of
\* translate_args, the facade function that resolves one id, or two on
\* Windows, and formats them, and the one that resolves none
LiveOps ==
    {TranslateArgs(id, NoArgs) :
        id \in {<<"missing">>, <<"cli-summary">>, <<"cli-summary", DOT, "missing">>}}
        \cup {HandleError(Err("CliUnableToRequestConfirmation", NoPath, <<>>, <<>>))}
        \cup {ProcessedBytes(Status(1, 1, KiB, KiB))}
\* ... and a request that formats a number, which writes the memoizer
ConcOps ==
    LiveOps \cup {TranslateArgs(<<"cli-summary", DOT, "succeeded">>,
                                ArgSet(NoArgs, PROCESSED_GAMES, Num(1)))}

(* ------------------------------ state ----------------------------------- *)
VARIABLES
    ftlValid,   \* lang/en-US.ftl parses (line 41) and is added to the bundle (line 48)
    windows,    \* cfg(target_os = "windows"), lines 148-152
    lazy,       \* state of the Lazy cell BUNDLE: "uninit", "running", "ready", "poisoned"
    initCount,  \* how many times the initializer of BUNDLE (lines 39-52) has run
    bundle,     \* the FluentBundle inside BUNDLE
    memo,       \* the bundle's IntlLangMemoizer
    holder,     \* the thread that holds the Mutex of BUNDLE, 0 when it is free
    poisoned,   \* the Mutex's poison flag
    pc,         \* where each thread is
    op,         \* the call each thread is in
    calls,      \* the translate_args calls the facade function makes
    results,    \* the results of the calls already made
    pattern,    \* local `pattern` of translate_args
    value,      \* local `value` of translate_args
    result,     \* the String translate_args returns
    trace,      \* the steps the current translate_args call has executed
    nText,      \* reflow alone: the text given
    nSpaces,    \* ... after RE_EXTRA_SPACES
    nLines,     \* ... after RE_EXTRA_LINES
    nOnce,      \* ... after RE_EXTRA_PARAGRAPHS: the text reflowed once
    nTwice,     \* ... the reflowed text reflowed again
    nStage      \* ... how many of these steps were taken

envVars == <<ftlValid, windows>>
sharedVars == <<lazy, initCount, bundle, memo, holder, poisoned>>
threadVars == <<pc, op, calls, results, pattern, value, result, trace>>
normVars == <<nText, nSpaces, nLines, nOnce, nTwice, nStage>>
vars == <<envVars, sharedVars, threadVars, normVars>>

Threads == 1..NumThreads
NoThread == 0
NoValue == <<>>

\* the locals of a thread that is in no call
Unwound(t) ==
    /\ op' = [op EXCEPT ![t] = NoOp]
    /\ calls' = [calls EXCEPT ![t] = <<>>]
    /\ results' = [results EXCEPT ![t] = <<>>]
    /\ pattern' = [pattern EXCEPT ![t] = NoPattern]
    /\ value' = [value EXCEPT ![t] = NoValue]
    /\ result' = [result EXCEPT ![t] = NoValue]
    /\ trace' = [trace EXCEPT ![t] = <<>>]

\* the request of the translate_args call thread t is in
Current(t) == calls[t][Len(results[t]) + 1]
\* the steps during which the MutexGuard `bundle` of line 63 is alive
Critical == {"lookup", "pattern", "format", "reflow"}

MachineInit ==
    /\ ftlValid \in BOOLEAN
    /\ windows \in BOOLEAN
    /\ lazy = "uninit"
    /\ initCount = 0
    /\ bundle = NoBundle
    /\ memo = {}
    /\ holder = NoThread
    /\ poisoned = FALSE
    /\ pc = [t \in Threads |-> "idle"]
    /\ op = [t \in Threads |-> NoOp]
    /\ calls = [t \in Threads |-> <<>>]
    /\ results = [t \in Threads |-> <<>>]
    /\ pattern = [t \in Threads |-> NoPattern]
    /\ value = [t \in Threads |-> NoValue]
    /\ result = [t \in Threads |-> NoValue]
    /\ trace = [t \in Threads |-> <<>>]

NormIdle ==
    /\ nText = <<>>
    /\ nSpaces = <<>>
    /\ nLines = <<>>
    /\ nOnce = <<>>
    /\ nTwice = <<>>
    /\ nStage = 0

Init == MachineInit /\ NormIdle

(* ----------------------------- actions ---------------------------------- *)
Goto(t, label) == pc' = [pc EXCEPT ![t] = label]
Did(t, step) == trace' = [trace EXCEPT ![t] = Append(@, step)]

\* a caller enters a facade function, which builds its requests
Call(t, o) ==
    /\ pc[t] = "idle"
    /\ op' = [op EXCEPT ![t] = o]
    /\ calls' = [calls EXCEPT ![t] = PlanOf(o, windows).calls]
    /\ results' = [results EXCEPT ![t] = <<>>]
    /\ Goto(t, IF PlanOf(o, windows).calls = <<>> THEN "finish" ELSE "lock")
    /\ UNCHANGED <<envVars, sharedVars, pattern, value, result, trace, normVars>>

\* Force that does not wait for a running initializer but runs it as well
ForceRacy(t) ==
    /\ pc[t] = "lock"
    /\ lazy \in {"uninit", "running", "poisoned"}
    /\ IF lazy = "poisoned"
       THEN /\ Goto(t, "panicked")
            /\ Unwound(t)
            /\ UNCHANGED lazy
       ELSE /\ lazy' = "running"
            /\ Goto(t, "init")
            /\ Did(t, "force")
            /\ UNCHANGED <<op, calls, results, pattern, value, result>>
    /\ UNCHANGED <<envVars, initCount, bundle, memo, holder, poisoned, normVars>>

\* line 63, BUNDLE.lock(), the deref of the Lazy: the first thread to get there
\* runs the initializer, and the others wait until it is done (they neither
\* start it again nor go on to the Mutex); after an initializer that panicked
\* every deref panics.  Once the cell is ready the deref only reads it.
Force(t) ==
    /\ pc[t] = "lock"
    /\ lazy \in {"uninit", "poisoned"}
    /\ IF lazy = "poisoned"
       THEN /\ Goto(t, "panicked")
            /\ Unwound(t)
            /\ UNCHANGED lazy
       ELSE /\ lazy' = "running"
            /\ Goto(t, "init")
            /\ Did(t, "force")
            /\ UNCHANGED <<op, calls, results, pattern, value, result>>
    /\ UNCHANGED <<envVars, initCount, bundle, memo, holder, poisoned, normVars>>

\* lines 39-52: the initializer; both expect()s panic when the resource is bad
LazyInit(t) ==
    /\ pc[t] = "init"
    /\ initCount' = initCount + 1
    /\ IF ftlValid
       THEN /\ bundle' = Catalog
            /\ lazy' = "ready"
            /\ Goto(t, "lock")
            /\ Did(t, "init")
            /\ UNCHANGED <<op, calls, results, pattern, value, result>>
       ELSE /\ bundle' = bundle
            /\ lazy' = "poisoned"
            /\ Goto(t, "panicked")
            /\ Unwound(t)
    /\ UNCHANGED <<envVars, memo, holder, poisoned, normVars>>

\* Lock that does not wait for the holder of the Mutex
LockNoExclusion(t) ==
    /\ pc[t] = "lock"
    /\ lazy = "ready"
    /\ IF poisoned
       THEN /\ result' = [result EXCEPT ![t] = CannotLock]
            /\ Goto(t, "return")
            /\ UNCHANGED holder
       ELSE /\ holder' = t
            /\ Goto(t, "lookup")
            /\ UNCHANGED result
    /\ Did(t, "lock")
    /\ UNCHANGED <<envVars, lazy, initCount, bundle, memo, poisoned,
                   op, calls, results, pattern, value, normVars>>

\* Lock that recovers the guard of a poisoned Mutex (PoisonError::into_inner)
LockIgnoringPoison(t) ==
    /\ pc[t] = "lock"
    /\ lazy = "ready"
    /\ holder = NoThread
    /\ holder' = t
    /\ Goto(t, "lookup")
    /\ Did(t, "lock")
    /\ UNCHANGED <<envVars, lazy, initCount, bundle, memo, poisoned,
                   op, calls, results, pattern, value, result, normVars>>

\* lines 63-66, on the initialized cell: Mutex::lock blocks while another thread holds the guard; on a
\* poisoned mutex it returns Err, whose guard is dropped at once
Lock(t) ==
    /\ pc[t] = "lock"
    /\ lazy = "ready"
    /\ holder = NoThread
    /\ IF poisoned
       THEN /\ result' = [result EXCEPT ![t] = CannotLock]
            /\ Goto(t, "return")
            /\ UNCHANGED holder
       ELSE /\ holder' = t
            /\ Goto(t, "lookup")
            /\ UNCHANGED result
    /\ Did(t, "lock")
    /\ UNCHANGED <<envVars, lazy, initCount, bundle, memo, poisoned,
                   op, calls, results, pattern, value, normVars>>

\* Lookup whose diagnostic embeds the whole request id
LookupFullId(t) ==
    /\ pc[t] = "lookup"
    /\ IF has_message(bundle, MessageName(Current(t).id))
       THEN /\ Goto(t, "pattern")
            /\ UNCHANGED <<result, holder>>
       ELSE /\ result' = [result EXCEPT ![t] = NoMessage(Current(t).id)]
            /\ holder' = NoThread
            /\ Goto(t, "return")
    /\ Did(t, "lookup")
    /\ UNCHANGED <<envVars, lazy, initCount, bundle, memo, poisoned,
                   op, calls, results, pattern, value, normVars>>

\* Lookup whose early return leaks the guard
LookupKeepingLock(t) ==
    /\ pc[t] = "lookup"
    /\ IF has_message(bundle, MessageName(Current(t).id))
       THEN /\ Goto(t, "pattern")
            /\ UNCHANGED <<result, holder>>
       ELSE /\ result' = [result EXCEPT ![t] = NoMessage(MessageName(Current(t).id))]
            /\ holder' = holder
            /\ Goto(t, "return")
    /\ Did(t, "lookup")
    /\ UNCHANGED <<envVars, lazy, initCount, bundle, memo, poisoned,
                   op, calls, results, pattern, value, normVars>>

\* lines 68-78: split the id, get the message; an early return drops the guard
Lookup(t) ==
    /\ pc[t] = "lookup"
    /\ IF has_message(bundle, MessageName(Current(t).id))
       THEN /\ Goto(t, "pattern")
            /\ UNCHANGED <<result, holder>>
       ELSE /\ result' = [result EXCEPT ![t] = NoMessage(MessageName(Current(t).id))]
            /\ holder' = NoThread
            /\ Goto(t, "return")
    /\ Did(t, "lookup")
    /\ UNCHANGED <<envVars, lazy, initCount, bundle, memo, poisoned,
                   op, calls, results, pattern, value, normVars>>

\* the message found at line 75
Found(t) == bundle[MessageName(Current(t).id)]

\* GetPattern that falls back to the message's value when the attribute is missing
GetPatternFallback(t) ==
    LET id == Current(t).id
    IN  /\ pc[t] = "pattern"
        /\ IF (~HasDot(id) /\ has_value(Found(t)))
                \/ (HasDot(id) /\ (has_attribute(Found(t), AttrName(id)) \/ has_value(Found(t))))
           THEN /\ pattern' = [pattern EXCEPT ![t] =
                                  IF HasDot(id) /\ has_attribute(Found(t), AttrName(id))
                                  THEN get_attribute(Found(t), AttrName(id)).value
                                  ELSE Found(t).value]
                /\ Goto(t, "format")
                /\ UNCHANGED <<result, holder>>
           ELSE /\ result' = [result EXCEPT ![t] =
                                 IF HasDot(id) THEN NoAttr(id) ELSE NoMessageValue(id)]
                /\ holder' = NoThread
                /\ Goto(t, "return")
                /\ UNCHANGED pattern
        /\ Did(t, "pattern")
        /\ UNCHANGED <<envVars, lazy, initCount, bundle, memo, poisoned,
                       op, calls, results, value, normVars>>

\* lines 80-89: the message's value, or the attribute named after the first ".";
\* an early return drops the guard
GetPattern(t) ==
    LET id == Current(t).id
    IN  /\ pc[t] = "pattern"
        /\ IF HasDot(id)
           THEN IF has_attribute(Found(t), AttrName(id))
                THEN /\ pattern' = [pattern EXCEPT ![t] = get_attribute(Found(t), AttrName(id)).value]
                     /\ Goto(t, "format")
                     /\ UNCHANGED <<result, holder>>
                ELSE /\ result' = [result EXCEPT ![t] = NoAttr(id)]
                     /\ holder' = NoThread
                     /\ Goto(t, "return")
                     /\ UNCHANGED pattern
           ELSE IF has_value(Found(t))
                THEN /\ pattern' = [pattern EXCEPT ![t] = Found(t).value]
                     /\ Goto(t, "format")
                     /\ UNCHANGED <<result, holder>>
                ELSE /\ result' = [result EXCEPT ![t] = NoMessageValue(id)]
                     /\ holder' = NoThread
                     /\ Goto(t, "return")
                     /\ UNCHANGED pattern
        /\ Did(t, "pattern")
        /\ UNCHANGED <<envVars, lazy, initCount, bundle, memo, poisoned,
                       op, calls, results, value, normVars>>

\* lines 90-91: format the pattern; the bundle is read, its memoizer written
Format(t) ==
    /\ pc[t] = "format"
    /\ value' = [value EXCEPT ![t] = format_pattern(pattern[t], Current(t).args)]
    /\ memo' = memo \cup Memoized(pattern[t], Current(t).args)
    /\ Goto(t, "reflow")
    /\ Did(t, "format")
    /\ UNCHANGED <<envVars, lazy, initCount, bundle, holder, poisoned,
                   op, calls, results, pattern, result, normVars>>

\* a panic while the guard of line 63 is alive (in the formatter): unwinding
\* drops the guard, which poisons the Mutex; the thread is gone
Panic(t) ==
    /\ pc[t] = "format"
    /\ holder' = NoThread
    /\ poisoned' = TRUE
    /\ Goto(t, "panicked")
    /\ Unwound(t)
    /\ UNCHANGED <<envVars, lazy, initCount, bundle, memo, normVars>>

\* lines 93-99: the three replace_all passes; the guard is dropped on return
Normalize(t) ==
    /\ pc[t] = "reflow"
    /\ result' = [result EXCEPT ![t] = Reflow(value[t])]
    /\ holder' = NoThread
    /\ Goto(t, "return")
    /\ Did(t, "reflow")
    /\ UNCHANGED <<envVars, lazy, initCount, bundle, memo, poisoned,
                   op, calls, results, pattern, value, normVars>>

\* the translate_args call thread t is in is the last one its facade function makes
LastCall(t) == Len(results[t]) + 1 = Len(calls[t])

\* translate_args has returned: the facade function takes the String and makes
\* its next call, or builds its own result and returns
Return(t) ==
    /\ pc[t] = "return"
    /\ IF LastCall(t)
       THEN /\ Goto(t, "idle")
            /\ Unwound(t)
       ELSE /\ Goto(t, "lock")
            /\ results' = [results EXCEPT ![t] = Append(@, result[t])]
            /\ pattern' = [pattern EXCEPT ![t] = NoPattern]
            /\ value' = [value EXCEPT ![t] = NoValue]
            /\ result' = [result EXCEPT ![t] = NoValue]
            /\ trace' = [trace EXCEPT ![t] = <<>>]
            /\ UNCHANGED <<op, calls>>
    /\ UNCHANGED <<envVars, sharedVars, normVars>>

\* a facade function that resolves nothing returns
Finish(t) ==
    /\ pc[t] = "finish"
    /\ Goto(t, "idle")
    /\ Unwound(t)
    /\ UNCHANGED <<envVars, sharedVars, normVars>>

\* thread t is about to return from its facade function
Finishing(t) == pc[t] = "finish" \/ (pc[t] = "return" /\ LastCall(t))

\* the String the facade function returns
FacadeOutput(t) ==
    Output(PlanOf(op[t], windows).fmt,
           IF pc[t] = "return" THEN Append(results[t], result[t]) ELSE results[t])

\* one step of a call in progress
Step(t) ==
    \/ Force(t)
    \/ LazyInit(t)
    \/ Lock(t)
    \/ Lookup(t)
    \/ GetPattern(t)
    \/ Format(t)
    \/ Normalize(t)
    \/ Return(t)
    \/ Finish(t)

(* ------------------- parallel callers of the facade --------------------- *)
Next ==
    \E t \in Threads :
        \/ \E o \in ConcOps : Call(t, o)
        \/ Step(t)
        \/ Panic(t)

Spec == Init /\ [][Next]_vars

\* every thread in a call keeps running; a thread waiting for the Mutex gets it
\* if it is free again and again
Fairness ==
    \A t \in Threads :
        /\ WF_vars(Force(t) \/ LazyInit(t) \/ Lookup(t) \/ GetPattern(t) \/ Format(t)
                       \/ Normalize(t) \/ Return(t) \/ Finish(t))
        /\ SF_vars(Lock(t))

\* the parallel callers when the catalog parses
LiveInit == Init /\ ftlValid
LiveNext ==
    \E t \in Threads :
        \/ \E o \in LiveOps : Call(t, o)
        \/ Step(t)
        \/ Panic(t)

LiveSpec == LiveInit /\ [][LiveNext]_vars /\ Fairness

(* --------------------------- a single caller ---------------------------- *)
SeqNext ==
    \/ \E o \in SeqOps : Call(1, o)
    \/ Step(1)
    \/ Panic(1)

SeqSpec == Init /\ [][SeqNext]_vars

(* --------------------------- the reflow alone --------------------------- *)
NormInit ==
    /\ MachineInit
    /\ nText \in Texts
    /\ nSpaces = <<>>
    /\ nLines = <<>>
    /\ nOnce = <<>>
    /\ nTwice = <<>>
    /\ nStage = 0

\* RE_EXTRA_SPACES.replace_all(&value, "${1} ")
CollapseSpaces ==
    /\ nStage = 0
    /\ nSpaces' = ExtraSpaces(nText)
    /\ nStage' = 1
    /\ UNCHANGED <<envVars, sharedVars, threadVars, nText, nLines, nOnce, nTwice>>

\* RE_EXTRA_LINES.replace_all(.., "${1} ${2}")
JoinLines ==
    /\ nStage = 1
    /\ nLines' = ExtraLines(nSpaces)
    /\ nStage' = 2
    /\ UNCHANGED <<envVars, sharedVars, threadVars, nText, nSpaces, nOnce, nTwice>>

\* RE_EXTRA_PARAGRAPHS.replace_all(.., "${1}\n\n${2}")
NormalizeParagraphs ==
    /\ nStage = 2
    /\ nOnce' = ExtraParagraphs(nLines)
    /\ nStage' = 3
    /\ UNCHANGED <<envVars, sharedVars, threadVars, nText, nSpaces, nLines, nTwice>>

\* the reflowed text is reflowed again
ReflowAgain ==
    /\ nStage = 3
    /\ nTwice' = Reflow(nOnce)
    /\ nStage' = 4
    /\ UNCHANGED <<envVars, sharedVars, threadVars, nText, nSpaces, nLines, nOnce>>

NormNext == CollapseSpaces \/ JoinLines \/ NormalizeParagraphs \/ ReflowAgain

NormSpec == NormInit /\ [][NormNext]_vars

(* ------------------------------ claims ---------------------------------- *)
\* the current translate_args call of t has executed `step`
Ran(t, step) == \E i \in 1..Len(trace[t]) : trace[t][i] = step
\* translate_args of t has a String to return
Returned(t) == pc[t] = "return"
\* ... after it got the lock and looked the message up
LookedUp(t) == Returned(t) /\ Ran(t, "lookup")
Registered(id) == has_message(Catalog, MessageName(id))

\* C1 as stated: for every request id, bare or dotted, whose message is not in
\* the catalog, the String returned contains the id exactly as passed in.
C1_DiagnosticContainsId ==
    \A t \in Threads :
        LookedUp(t) /\ ~Registered(Current(t).id)
            => Contains(result[t], Current(t).id)

\* C1 amended: for every request id whose message is not in the catalog,
\* translate_args returns "fluent-no-message=" followed by the message name (the
\* part of the id before the first "."), without formatting anything; the
\* String contains the id as passed in exactly when the id has no ".".
C1_DiagnosticContainsName ==
    \A t \in Threads :
        LookedUp(t) /\ ~Registered(Current(t).id)
            => /\ result[t] = <<"fluent-no-message=">> \o MessageName(Current(t).id)
               /\ Contains(result[t], MessageName(Current(t).id))
               /\ Contains(result[t], Current(t).id) <=> ~HasDot(Current(t).id)
               /\ ~Ran(t, "format")

C1_Witness ==
    \E t \in Threads :
        /\ LookedUp(t)
        /\ ~Registered(Current(t).id)
        /\ HasDot(Current(t).id)
        /\ Len(MessageName(Current(t).id)) > 0
        /\ result[t] = NoMessage(MessageName(Current(t).id))

\* the message exists and the requested pattern does not
PatternMissing(id) ==
    /\ Registered(id)
    /\ IF HasDot(id)
       THEN ~has_attribute(Catalog[MessageName(id)], AttrName(id))
       ELSE ~has_value(Catalog[MessageName(id)])

\* C2: when the message named before the first "." exists and the requested
\* pattern does not (no such attribute, or no value for a bare id), the String
\* returned is a diagnostic that embeds the whole request id, and neither the
\* formatter nor the reflow has run.
C2_MissingPatternDiagnostic ==
    \A t \in Threads :
        LookedUp(t) /\ PatternMissing(Current(t).id)
            => /\ result[t] = (IF HasDot(Current(t).id)
                               THEN <<"fluent-no-attr=">>
                               ELSE <<"fluent-no-message-value=">>) \o Current(t).id
               /\ Contains(result[t], Current(t).id)
               /\ ~Ran(t, "format")
               /\ ~Ran(t, "reflow")
               /\ value[t] = NoValue

C2_Witness ==
    \E t \in Threads :
        /\ LookedUp(t)
        /\ PatternMissing(Current(t).id)
        /\ HasDot(Current(t).id)
        /\ Len(AttrName(Current(t).id)) > 0
        /\ Ran(t, "pattern")
        /\ Contains(result[t], Current(t).id)

\* C3: at most one caller at a time is between acquiring the catalog lock and
\* returning: lookup, formatting and reflow of two calls never overlap.
C3_MutualExclusion ==
    /\ Cardinality({t \in Threads : pc[t] \in Critical}) <= 1
    /\ \A t \in Threads : pc[t] \in Critical => holder = t

C3_Witness ==
    \E t, u \in Threads :
        /\ t # u
        /\ pc[t] = "reflow"
        /\ holder = t
        /\ pc[u] = "lock"

\* C4: once a caller has panicked while holding the lock, the lock stays
\* poisoned, and every translate_args call that returns from then on returns
\* exactly "fluent-cannot-lock", without having read the catalog, and no call
\* panics.
C4_PoisonedLockSentinel ==
    [][poisoned =>
         /\ poisoned'
         /\ \A t \in Threads :
               /\ (pc[t] # "return" /\ pc'[t] = "return") =>
                     /\ result'[t] = <<"fluent-cannot-lock">>
                     /\ \A i \in 1..Len(trace'[t]) :
                            trace'[t][i] \notin {"lookup", "pattern", "format", "reflow"}
               /\ pc'[t] = "panicked" => pc[t] = "panicked"
               /\ pc'[t] \notin Critical]_vars

C4_Witness ==
    /\ poisoned
    /\ \E t, u \in Threads :
          /\ pc[u] = "panicked"
          /\ Returned(t)
          /\ result[t] = CannotLock

\* C5: the initializer of the catalog runs once, whatever the interleaving of
\* the first calls; no caller reads the catalog before it has finished; and
\* afterwards no step changes the catalog.
C5_InitializedOnce ==
    /\ [](/\ initCount <= 1
          /\ lazy = "ready" => initCount = 1 /\ bundle = Catalog
          /\ \A t \in Threads : pc[t] \in Critical => lazy = "ready")
    /\ [][lazy = "ready" => lazy' = "ready" /\ bundle' = bundle]_vars

C5_Witness ==
    \E t, u \in Threads :
        /\ t # u
        /\ Ran(t, "init")
        /\ pc[t] = "format"
        /\ pc[u] = "lock"
        /\ Len(results[u]) = 0
        /\ initCount = 1

\* the steps of a translate_args call before it has its String
InCall == {"init", "lock"} \cup Critical

\* C6: the lock is held only between its acquisition and the return of the
\* same call (every return path releases it, and a facade function makes its
\* calls one after another without it); and under fair scheduling and a
\* catalog that parsed, every translate_args call that does not itself panic
\* eventually has its String, and its facade function returns: no caller waits
\* forever, whatever the other callers do.
C6_EveryCallReturns ==
    /\ [](\A t \in Threads : holder = t => pc[t] \in Critical)
    /\ \A t \in Threads :
          /\ (pc[t] \in InCall) ~> (pc[t] \in {"return", "panicked"})
          /\ (pc[t] # "idle") ~> (pc[t] \in {"idle", "panicked"})

C6_Witness ==
    \E t, u \in Threads :
        /\ t # u
        /\ Len(calls[t]) = 2
        /\ Len(results[t]) = 1
        /\ pc[t] = "lock"
        /\ pc[u] \in Critical
        /\ Len(results[u]) = 0
        /\ ~Registered(Current(u).id)

\* C7: the reflow is idempotent: reflowing a reflowed text changes nothing.
C7_ReflowIdempotent == nStage = 4 => nTwice = nOnce

\* a line break of text at position i that sits alone between two characters
\* that are neither space nor line break
LoneBreak(text, i) ==
    /\ 1 < i
    /\ i < Len(text)
    /\ text[i] \in LineBreak
    /\ NonBlank(text[i - 1])
    /\ NonBlank(text[i + 1])

\* the positions i of text where a run of two or more line breaks starts right
\* after the non-blank text[i] and ends right before a non-blank character
BreakRuns(text) ==
    {i \in 1..Len(text) :
        /\ NonBlank(text[i])
        /\ RunLen(text, i + 1, LineBreak) >= 2
        /\ i + 1 + RunLen(text, i + 1, LineBreak) <= Len(text)
        /\ NonBlank(text[i + 1 + RunLen(text, i + 1, LineBreak)])}

\* C8: in the reflowed text no single line break is left between two characters
\* that are neither space nor line break (each was replaced by a space; no pass
\* creates one), the line-join pass turns no run of two or more line breaks
\* into a space, and each such run comes out as exactly "\n\n".
C8_BreaksJoinedRunsKept ==
    /\ nStage >= 2 => Cardinality(BreakRuns(nLines)) = Cardinality(BreakRuns(nSpaces))
    /\ nStage >= 3 =>
          /\ \A i \in 1..Len(nOnce) : ~LoneBreak(nOnce, i)
          /\ \A i \in BreakRuns(nOnce) :
                 /\ RunLen(nOnce, i + 1, LineBreak) = 2
                 /\ nOnce[i + 1] = LF
                 /\ nOnce[i + 2] = LF

\* thread t is inside handle_error
InHandleError(t) == op[t].fn = "handle_error" /\ pc[t] # "idle"
\* the message ids a facade function resolves
MessageIds(t) == {MessageName(calls[t][i].id) : i \in 1..Len(calls[t])}
PassesPath(t) ==
    \A i \in 1..Len(calls[t]) : calls[t][i].args[PATH] = Str(render(op[t].error.path))

\* C9 as stated: handle_error maps every error kind to exactly one message id,
\* and for each of the four kinds that carry a path the rendered path is the
\* `path` argument of the request.
C9_PathPassedAsArgument ==
    \A t \in Threads :
        InHandleError(t)
            => /\ Cardinality(MessageIds(t)) = 1
               /\ op[t].error.kind \in
                      {"CliBackupTargetExists", "CannotPrepareBackupTarget",
                       "RestorationSourceInvalid", "UnableToOpenDir"}
                    => PassesPath(t)

\* C9 amended: handle_error maps every error kind to exactly one message id;
\* for CliBackupTargetExists, CannotPrepareBackupTarget and
\* RestorationSourceInvalid the rendered path is the `path` argument of the
\* request; for UnableToOpenDir the message is resolved without arguments and
\* the rendered path is appended to the resolved text after an empty line.
C9_PathPassedOrAppended ==
    \A t \in Threads :
        InHandleError(t)
            => /\ Cardinality(MessageIds(t)) = 1
               /\ op[t].error.kind \in
                      {"CliBackupTargetExists", "CannotPrepareBackupTarget",
                       "RestorationSourceInvalid"}
                    => PassesPath(t)
               /\ op[t].error.kind = "UnableToOpenDir"
                    => /\ \A i \in 1..Len(calls[t]) : calls[t][i].args = NoArgs
                       /\ Finishing(t)
                            => FacadeOutput(t)
                                 = result[t] \o <<LF, LF>> \o render(op[t].error.path)

C9_Witness ==
    \E t \in Threads :
        /\ InHandleError(t)
        /\ op[t].error.kind = "UnableToOpenDir"
        /\ render(op[t].error.path) # op[t].error.path
        /\ Finishing(t)
        /\ Ran(t, "reflow")

InProcessedGames(t) == op[t].fn = "processed_games" /\ pc[t] # "idle"
InProcessedBytes(t) == op[t].fn = "processed_bytes" /\ pc[t] # "idle"

\* the games arguments, both magnitudes
GamesArgs(status) ==
    [n \in ArgNames |->
        CASE n = TOTAL_GAMES -> Num(status.total_games)
          [] n = PROCESSED_GAMES -> Num(status.processed_games)
          [] OTHER -> Absent]
\* the size arguments, both magnitudes
SizeArgs(status) ==
    [n \in ArgNames |->
        CASE n = TOTAL_SIZE -> Str(adjusted_size(status.total_bytes))
          [] n = PROCESSED_SIZE -> Str(adjusted_size(status.processed_bytes))
          [] OTHER -> Absent]

\* the games half of C10: the variant is chosen by the game counts alone
GamesSelection(t) ==
    InProcessedGames(t)
        => /\ Len(calls[t]) = 1
           /\ calls[t][1].id = (IF op[t].status.processed_games = op[t].status.total_games
                                THEN <<"processed-games">>
                                ELSE <<"processed-games-subset">>)
           /\ calls[t][1].args = GamesArgs(op[t].status)

\* C10 as stated: processed_games and processed_bytes each resolve one of two
\* catalog messages: the "all processed" one when processed equals total, the
\* "subset" one, with both magnitudes as arguments, when processed is less;
\* neither check looks at the other's counts.
C10_TwoMessageVariantsEach ==
    \A t \in Threads :
        /\ GamesSelection(t)
        /\ InProcessedBytes(t)
              => /\ Len(calls[t]) = 1
                 /\ op[t].status.processed_bytes < op[t].status.total_bytes
                      => /\ calls[t][1].id = <<"processed-size-subset">>
                         /\ calls[t][1].args = SizeArgs(op[t].status)

\* C10 amended: processed_games resolves "processed-games" when the processed
\* count equals the total and "processed-games-subset" when it is less, with
\* both counts as arguments either way; processed_bytes resolves
\* "processed-size-subset", with both sizes as arguments, when the processed
\* bytes are fewer than the total, and when they are equal it resolves no
\* message at all and returns the formatted total size; neither check looks at
\* the other's counts.
C10_GamesVariantsBytesSizeOrSubset ==
    \A t \in Threads :
        /\ GamesSelection(t)
        /\ InProcessedBytes(t)
              => IF op[t].status.processed_bytes = op[t].status.total_bytes
                 THEN /\ calls[t] = <<>>
                      /\ pc[t] = "finish"
                      /\ FacadeOutput(t) = adjusted_size(op[t].status.total_bytes)
                 ELSE /\ Len(calls[t]) = 1
                      /\ calls[t][1].id = <<"processed-size-subset">>
                      /\ calls[t][1].args = SizeArgs(op[t].status)

C10_Witness ==
    \E t \in Threads :
        /\ InProcessedBytes(t)
        /\ op[t].status.processed_bytes = op[t].status.total_bytes
        /\ op[t].status.total_bytes >= KiB
        /\ op[t].status.processed_games < op[t].status.total_games
        /\ pc[t] = "finish"
        /\ FacadeOutput(t) = adjusted_size(op[t].status.total_bytes)

====
